---- MODULE Spec2Model ----
(***************************************************************************)
(* GreenGrid mock backend (src/unnamed/part_001): the localStorage         *)
(* document, the session key and the exported operations.                  *)
(*                                                                         *)
(* Every exported operation is an async function without an await before   *)
(* its last statement, so its load-mutate-save cycle runs to completion in *)
(* one turn of the event loop: one operation is one atomic action.  The    *)
(* promise it returns resolves a latency later; `pending` holds the calls  *)
(* made through the specification that follows their promises.             *)
(*                                                                         *)
(* Representation:                                                         *)
(*   - time is counted in whole days; the real clock is `clock`;           *)
(*   - e-mail addresses and names are sequences of one-character strings,  *)
(*     so that trim() and toLowerCase() are computed;                      *)
(*   - a bcrypt hash is the record [bcrypt |-> password] (the salt, which  *)
(*     compareSync reads back from the hash, is left out);                 *)
(*   - an ISO date string is the record [iso |-> day];                     *)
(*   - a UUID is the record [uuid |-> n], n drawn from a counter, so no    *)
(*     UUID is ever handed out twice; the UUIDs of log entries and of      *)
(*     cleanup records are never read by any operation and are left out;   *)
(*   - aiApprovalRate is counted in tenths (0.7 is 7, 1 is 10).            *)
(***************************************************************************)
EXTENDS Integers, Sequences, FiniteSets, TLC

VARIABLES
    storage,    \* localStorage[STORAGE_KEY]: Absent, Garbage or [json |-> document]
    sessionRaw, \* localStorage[SESSION_KEY]: Absent or [json |-> session]
    clock,      \* the real time (new Date()), in days
    nextUuid,   \* the number of UUIDs crypto.randomUUID() has handed out to users and spots
    pending     \* the calls whose promise a caller holds, in the order they were made

vars == <<storage, sessionRaw, clock, nextUuid, pending>>

----------------------------------------------------------------------------
(* Bounds of the model *)

MaxLogs == 3
MaxCleanupLogs == 5
MaxSpots == 2
MaxUuid == 3
MaxClock == 1

----------------------------------------------------------------------------
(* Program constants *)

SCHEMA_VERSION == 1
basePoints == 50
DecayDays == 7
AdminPoints == 500
AdminStreak == 4
DefaultAiRate == 7
RateOne == 10
StatsLogs == 10

Null == [null |-> TRUE]
Absent == [absent |-> TRUE]
Garbage == [garbage |-> TRUE]

----------------------------------------------------------------------------
(* Strings: String.prototype.trim and toLowerCase over character sequences *)

UpperChars == <<"A", "B", "C", "D", "E", "F", "G", "H", "I", "J", "K", "L", "M",
                "N", "O", "P", "Q", "R", "S", "T", "U", "V", "W", "X", "Y", "Z">>
LowerChars == <<"a", "b", "c", "d", "e", "f", "g", "h", "i", "j", "k", "l", "m",
                "n", "o", "p", "q", "r", "s", "t", "u", "v", "w", "x", "y", "z">>
WhiteSpace == {" ", "\t", "\n"}

ToLowerChar(c) ==
    IF \E i \in 1..Len(UpperChars) : UpperChars[i] = c
    THEN LowerChars[CHOOSE i \in 1..Len(UpperChars) : UpperChars[i] = c]
    ELSE c

toLowerCase(s) == [i \in 1..Len(s) |-> ToLowerChar(s[i])]

RECURSIVE TrimStart(_)
TrimStart(s) ==
    IF s # <<>> /\ Head(s) \in WhiteSpace THEN TrimStart(Tail(s)) ELSE s

RECURSIVE TrimEnd(_)
TrimEnd(s) ==
    IF s # <<>> /\ s[Len(s)] \in WhiteSpace THEN TrimEnd(SubSeq(s, 1, Len(s) - 1)) ELSE s

trim(s) == TrimEnd(TrimStart(s))

AdminEmail == <<"a", "d", "m", "i", "n", "@", "g", "r", "e", "e", "n", "g", "r", "i", "d",
                ".", "c", "o", "m">>
AdminName == <<"A", "d", "m", "i", "n">>

----------------------------------------------------------------------------
(* bcryptjs, Date and crypto *)

hashSync(password) == [bcrypt |-> password]

compareSync(password, hash) == hash = hashSync(password)

toISOString(day) == [iso |-> day]

ParseDate(str) == str.iso

randomUUID(n) == [uuid |-> n + 1]

----------------------------------------------------------------------------
(* Generic helpers *)

Last(s) == s[Len(s)]

\* Array.prototype.findIndex, given for each index whether the element there
\* satisfies the test: the first index that does, 0 for -1.
FindIndex(hits) ==
    IF \E i \in DOMAIN hits : hits[i]
    THEN CHOOSE i \in DOMAIN hits : hits[i] /\ \A j \in 1..(i - 1) : ~hits[j]
    ELSE 0

\* The object spread { ...a, ...b }: b's fields over a's.
Spread(a, b) ==
    [k \in DOMAIN a \cup DOMAIN b |-> IF k \in DOMAIN b THEN b[k] ELSE a[k]]

\* const { f, ...rest } = obj
Without(obj, f) == [k \in DOMAIN obj \ {f} |-> obj[k]]

Min(a, b) == IF a < b THEN a ELSE b
Max(a, b) == IF a > b THEN a ELSE b

----------------------------------------------------------------------------
(* Schema and migration *)

baseState ==
    [version |-> SCHEMA_VERSION,
     users |-> <<>>,
     spots |-> <<>>,
     logs |-> <<>>,
     settings |-> [theme |-> "system", aiApprovalRate |-> DefaultAiRate, nowOffsetDays |-> 0]]

\* migrations[v], for the versions that have one
HasMigration(v) == v = 1

Migration(v, db) == [Spread(baseState, db) EXCEPT !.version = 1]

\* the for loop of migrateSchema, from version v on
RECURSIVE MigrateFrom(_, _)
MigrateFrom(v, next) ==
    IF v <= SCHEMA_VERSION
    THEN MigrateFrom(v + 1, IF HasMigration(v) THEN Migration(v, next) ELSE next)
    ELSE next

\* mutant: the defaults are spread over the stored fields
migrateSchemaDefaultsWin(db) ==
    LET next == Spread(db, baseState)
        startVersion == next.version
    IN [MigrateFrom(startVersion + 1, next) EXCEPT !.version = SCHEMA_VERSION]

migrateSchema(db) ==
    LET next == Spread(baseState, db)
        startVersion == next.version
    IN [MigrateFrom(startVersion + 1, next) EXCEPT !.version = SCHEMA_VERSION]

----------------------------------------------------------------------------
(* The store *)

saveDb(db) == [json |-> db]

LogEntry(at, message) == [at |-> toISOString(at), message |-> message]

seedAdmin(db, now, uuid) ==
    IF Len(db.users) > 0 THEN db
    ELSE LET admin == [id |-> randomUUID(uuid),
                       name |-> AdminName,
                       email |-> AdminEmail,
                       passwordHash |-> hashSync("admin123"),
                       role |-> "admin",
                       isPremium |-> TRUE,
                       banned |-> FALSE,
                       points |-> AdminPoints,
                       streak |-> AdminStreak,
                       lastCleanupAt |-> Null,
                       createdAt |-> toISOString(now),
                       cleanups |-> <<>>]
         IN [db EXCEPT !.users = Append(@, admin),
                       !.logs = Append(@, LogEntry(now, <<"Seeded admin account.">>))]

\* loadDb: the document it returns (and has saved)
loadDb(raw, now, uuid) ==
    IF raw = Absent THEN seedAdmin(baseState, now, uuid)
    ELSE IF raw = Garbage THEN seedAdmin(baseState, now, uuid)
    ELSE migrateSchema(raw.json)

\* whether loadDb draws a UUID (it seeds the admin)
LoadSeeds(raw) == raw = Absent \/ raw = Garbage

UuidAfterLoad(raw, uuid) == IF LoadSeeds(raw) THEN uuid + 1 ELSE uuid

\* mutant: the password hash is not stripped
sanitizeUserKeepsHash(user) == user

sanitizeUser(user) == Without(user, "passwordHash")

\* mutant: the offset is not added
getNowReal(db, now) == now

getNow(db, now) ==
    LET offsetDays == IF "nowOffsetDays" \in DOMAIN db.settings
                      THEN db.settings.nowOffsetDays ELSE 0
    IN now + offsetDays

\* mutant: the window is a day longer
IsStaleAfterEightDays(spot, cutoff) ==
    spot.updatedAt # Null /\ ParseDate(spot.updatedAt) < cutoff - 1

\* spot.updatedAt && new Date(spot.updatedAt) < cutoff
IsStale(spot, cutoff) == spot.updatedAt # Null /\ ParseDate(spot.updatedAt) < cutoff

\* mutant: a demoted spot also gets a new updatedAt
applyDecayTouches(db, now) ==
    LET cutoff == getNow(db, now) - DecayDays
    IN [db EXCEPT !.spots =
          [i \in 1..Len(db.spots) |->
              IF IsStale(db.spots[i], cutoff)
              THEN [db.spots[i] EXCEPT !.status = "unverified",
                                       !.updatedAt = toISOString(getNow(db, now))]
              ELSE db.spots[i]]]

applyDecay(db, now) ==
    LET cutoff == getNow(db, now) - DecayDays
    IN [db EXCEPT !.spots =
          [i \in 1..Len(db.spots) |->
              IF IsStale(db.spots[i], cutoff)
              THEN [db.spots[i] EXCEPT !.status = "unverified"]
              ELSE db.spots[i]]]

persistSession(session) == [json |-> session]

getSession(raw) == IF raw = Absent THEN Null ELSE raw.json

----------------------------------------------------------------------------
(* The exported operations, as functions of the loaded document.           *)
(* Each yields [db, ok, value]: the document it saves last (the loaded one *)
(* when it saves nothing itself: loadDb has saved it), whether it resolved *)
(* and the resolved value or the message of the error thrown.              *)

Resolve(db, value) == [db |-> db, ok |-> TRUE, value |-> value]
Throw(db, message) == [db |-> db, ok |-> FALSE, value |-> message]

PushLog(db, now, message) ==
    [db EXCEPT !.logs = Append(@, LogEntry(getNow(db, now), message))]

\* mutant: the e-mail is trimmed and not lower-cased
normalizedEmailTrimOnly(email) == trim(email)

\* email.trim().toLowerCase()
normalizedEmail(email) == toLowerCase(trim(email))

createUser(db, name, email, password, now, uuid) ==
    LET normalized == normalizedEmail(email)
        IsNormalized(user) == user.email = normalized
        user == [id |-> randomUUID(uuid),
                 name |-> trim(name),
                 email |-> normalized,
                 passwordHash |-> hashSync(password),
                 role |-> "user",
                 isPremium |-> FALSE,
                 banned |-> FALSE,
                 points |-> 0,
                 streak |-> 0,
                 lastCleanupAt |-> Null,
                 createdAt |-> toISOString(getNow(db, now)),
                 cleanups |-> <<>>]
    IN IF FindIndex([i \in DOMAIN db.users |-> IsNormalized(db.users[i])]) # 0
       THEN Throw(db, "Email already registered.")
       ELSE Resolve(PushLog([db EXCEPT !.users = Append(@, user)], now,
                            <<"User created: ", user.email>>),
                    sanitizeUser(user))

\* mutant: the password is not compared
PasswordOkAlways(password, user) == TRUE

\* const ok = bcrypt.compareSync(password, user.passwordHash)
PasswordOk(password, user) == compareSync(password, user.passwordHash)

\* mutant: the session is persisted before the banned check
loginUserPersistsFirst(db, email, password, now, raw) ==
    LET normalized == normalizedEmail(email)
        IsNormalized(item) == item.email = normalized
        idx == FindIndex([i \in DOMAIN db.users |-> IsNormalized(db.users[i])])
        user == db.users[idx]
        session == [userId |-> user.id, role |-> user.role,
                    loggedInAt |-> toISOString(getNow(db, now))]
    IN IF idx = 0
       THEN [db |-> db, ok |-> FALSE, value |-> "No account found for this email.",
             sessionRaw |-> raw]
       ELSE IF user.banned
       THEN [db |-> db, ok |-> FALSE, value |-> "This account is banned. Contact support.",
             sessionRaw |-> persistSession(session)]
       ELSE IF ~PasswordOk(password, user)
       THEN [db |-> db, ok |-> FALSE, value |-> "Incorrect password.", sessionRaw |-> raw]
       ELSE [db |-> db, ok |-> TRUE,
             value |-> [session |-> session, user |-> sanitizeUser(user)],
             sessionRaw |-> persistSession(session)]

\* loginUser yields, besides, localStorage[SESSION_KEY] as it leaves it
loginUser(db, email, password, now, raw) ==
    LET normalized == normalizedEmail(email)
        IsNormalized(item) == item.email = normalized
        idx == FindIndex([i \in DOMAIN db.users |-> IsNormalized(db.users[i])])
        user == db.users[idx]
        session == [userId |-> user.id, role |-> user.role,
                    loggedInAt |-> toISOString(getNow(db, now))]
    IN IF idx = 0
       THEN [db |-> db, ok |-> FALSE, value |-> "No account found for this email.",
             sessionRaw |-> raw]
       ELSE IF user.banned
       THEN [db |-> db, ok |-> FALSE, value |-> "This account is banned. Contact support.",
             sessionRaw |-> raw]
       ELSE IF ~PasswordOk(password, user)
       THEN [db |-> db, ok |-> FALSE, value |-> "Incorrect password.", sessionRaw |-> raw]
       ELSE [db |-> db, ok |-> TRUE,
             value |-> [session |-> session, user |-> sanitizeUser(user)],
             sessionRaw |-> persistSession(session)]

getUserById(db, id) ==
    LET HasId(item) == item.id = id
        idx == FindIndex([i \in DOMAIN db.users |-> HasId(db.users[i])])
    IN IF idx = 0 THEN Resolve(db, Null) ELSE Resolve(db, sanitizeUser(db.users[idx]))

updateUser(db, id, updates, now) ==
    LET HasId(item) == item.id = id
        idx == FindIndex([i \in DOMAIN db.users |-> HasId(db.users[i])])
        db1 == [db EXCEPT !.users[idx] = Spread(@, updates)]
        db2 == PushLog(db1, now, <<"User updated: ", db1.users[idx].email>>)
    IN IF idx = 0 THEN Throw(db, "User not found.")
       ELSE Resolve(db2, sanitizeUser(db2.users[idx]))

\* mutant: a ban of an unknown user is logged before it fails
banUserLogsUnknown(db, id, banned, now) ==
    LET HasId(item) == item.id = id
        idx == FindIndex([i \in DOMAIN db.users |-> HasId(db.users[i])])
        db1 == [db EXCEPT !.users[idx].banned = banned]
        db2 == PushLog(db1, now, <<IF banned THEN "Banned" ELSE "Unbanned", " user: ",
                                   db1.users[idx].email>>)
    IN IF idx = 0 THEN Throw(PushLog(db, now, <<"Unknown user: ", id>>), "User not found.")
       ELSE Resolve(db2, sanitizeUser(db2.users[idx]))

banUser(db, id, banned, now) ==
    LET HasId(item) == item.id = id
        idx == FindIndex([i \in DOMAIN db.users |-> HasId(db.users[i])])
        db1 == [db EXCEPT !.users[idx].banned = banned]
        db2 == PushLog(db1, now, <<IF banned THEN "Banned" ELSE "Unbanned", " user: ",
                                   db1.users[idx].email>>)
    IN IF idx = 0 THEN Throw(db, "User not found.")
       ELSE Resolve(db2, sanitizeUser(db2.users[idx]))

\* mutant: the upgrade comes with 100 points
upgradeToPremiumWithBonus(db, id, now) ==
    LET HasId(item) == item.id = id
        idx == FindIndex([i \in DOMAIN db.users |-> HasId(db.users[i])])
        db1 == [db EXCEPT !.users[idx].isPremium = TRUE, !.users[idx].points = @ + 100]
        db2 == PushLog(db1, now, <<"Upgraded to premium: ", db1.users[idx].email>>)
    IN IF idx = 0 THEN Throw(db, "User not found.")
       ELSE Resolve(db2, sanitizeUser(db2.users[idx]))

upgradeToPremium(db, id, now) ==
    LET HasId(item) == item.id = id
        idx == FindIndex([i \in DOMAIN db.users |-> HasId(db.users[i])])
        db1 == [db EXCEPT !.users[idx].isPremium = TRUE]
        db2 == PushLog(db1, now, <<"Upgraded to premium: ", db1.users[idx].email>>)
    IN IF idx = 0 THEN Throw(db, "User not found.")
       ELSE Resolve(db2, sanitizeUser(db2.users[idx]))

\* createSpot reads the clock three times, for createdAt, for updatedAt and for
\* the log entry: createdNow, updatedNow and logNow are the real times read
createSpotAt(db, lat, lng, reportedBy, createdNow, updatedNow, logNow, uuid) ==
    LET spot == [id |-> randomUUID(uuid),
                 lat |-> lat,
                 lng |-> lng,
                 status |-> "unverified",
                 reportedBy |-> reportedBy,
                 createdAt |-> toISOString(getNow(db, createdNow)),
                 updatedAt |-> toISOString(getNow(db, updatedNow)),
                 beforeImage |-> Null,
                 afterImage |-> Null,
                 verifiedBy |-> Null,
                 premiumCleanup |-> FALSE]
    IN Resolve(PushLog([db EXCEPT !.spots = Append(@, spot)], logNow,
                       <<"Spot created at ", lat, lng>>),
               spot)

\* createSpot when the clock does not advance between its three reads
createSpot(db, lat, lng, reportedBy, now, uuid) ==
    createSpotAt(db, lat, lng, reportedBy, now, now, now, uuid)

updateSpot(db, id, updates, now) ==
    LET HasId(item) == item.id = id
        idx == FindIndex([i \in DOMAIN db.spots |-> HasId(db.spots[i])])
        db1 == [db EXCEPT !.spots[idx] =
                   Spread(Spread(@, updates), [updatedAt |-> toISOString(getNow(db, now))])]
    IN IF idx = 0 THEN Throw(db, "Spot not found.")
       ELSE Resolve(db1, db1.spots[idx])

resetMapData(db, now) ==
    Resolve(PushLog([db EXCEPT !.spots = <<>>], now, <<"Reset all map data.">>), TRUE)

\* mutant: the premium multiplier is dropped
earnedPointsFlat(user) == basePoints

\* basePoints * multiplier
earnedPoints(user) ==
    LET multiplier == IF user.isPremium THEN 2 ELSE 1
    IN basePoints * multiplier

\* mutant: a rejection resets the user's streak
rejectCleanupResetsStreak(db, spotId, userIdx, aiReason, now) ==
    Resolve(PushLog([db EXCEPT !.users[userIdx].streak = 0], now,
                    <<"Cleanup rejected for spot ", spotId, aiReason>>),
            [approved |-> FALSE, reason |-> aiReason])

\* the branch of recordCleanup taken when the cleanup is not approved
rejectCleanup(db, spotId, userIdx, aiReason, now) ==
    Resolve(PushLog(db, now, <<"Cleanup rejected for spot ", spotId, aiReason>>),
            [approved |-> FALSE, reason |-> aiReason])

\* mutant: the cleanup leaves the spot's updatedAt as it was
cleanedSpotKeepsUpdatedAt(spot, user, beforeImage, afterImage, at) ==
    Spread(spot, [status |-> IF user.isPremium THEN "premium" ELSE "verified",
                  verifiedBy |-> user.id,
                  premiumCleanup |-> user.isPremium,
                  beforeImage |-> beforeImage,
                  afterImage |-> afterImage])

\* the spot as an approved cleanup by the user leaves it
cleanedSpot(spot, user, beforeImage, afterImage, at) ==
    Spread(spot, [status |-> IF user.isPremium THEN "premium" ELSE "verified",
                  verifiedBy |-> user.id,
                  premiumCleanup |-> user.isPremium,
                  beforeImage |-> beforeImage,
                  afterImage |-> afterImage,
                  updatedAt |-> at])

\* mutant: a banned user's cleanup is refused
recordCleanupRefusesBanned(db, spotId, userId, beforeImage, afterImage, approved, aiReason, now) ==
    LET IsSpot(item) == item.id = spotId
        IsUser(item) == item.id = userId
        spotIdx == FindIndex([i \in DOMAIN db.spots |-> IsSpot(db.spots[i])])
        userIdx == FindIndex([i \in DOMAIN db.users |-> IsUser(db.users[i])])
        user == db.users[userIdx]
        spot == db.spots[spotIdx]
        earned == earnedPoints(user)
        at == toISOString(getNow(db, now))
        user1 == [user EXCEPT !.points = @ + earned,
                              !.streak = @ + 1,
                              !.lastCleanupAt = at,
                              !.cleanups = Append(@, [spotId |-> spotId,
                                                      points |-> earned,
                                                      premium |-> user.isPremium,
                                                      at |-> at])]
        spot1 == cleanedSpot(spot, user1, beforeImage, afterImage, at)
        db1 == [db EXCEPT !.users[userIdx] = user1, !.spots[spotIdx] = spot1]
    IN IF spotIdx = 0 \/ userIdx = 0 THEN Throw(db, "Spot or user not found.")
       ELSE IF user.banned THEN Throw(db, "This account is banned. Contact support.")
       ELSE IF ~approved
       THEN rejectCleanup(db, spotId, userIdx, aiReason, now)
       ELSE Resolve(PushLog(db1, now, <<"Cleanup approved for ", user1.email, earned>>),
                    [approved |-> TRUE, points |-> earned, spot |-> spot1,
                     user |-> sanitizeUser(user1)])

recordCleanup(db, spotId, userId, beforeImage, afterImage, approved, aiReason, now) ==
    LET IsSpot(item) == item.id = spotId
        IsUser(item) == item.id = userId
        spotIdx == FindIndex([i \in DOMAIN db.spots |-> IsSpot(db.spots[i])])
        userIdx == FindIndex([i \in DOMAIN db.users |-> IsUser(db.users[i])])
        user == db.users[userIdx]
        spot == db.spots[spotIdx]
        earned == earnedPoints(user)
        at == toISOString(getNow(db, now))
        user1 == [user EXCEPT !.points = @ + earned,
                              !.streak = @ + 1,
                              !.lastCleanupAt = at,
                              !.cleanups = Append(@, [spotId |-> spotId,
                                                      points |-> earned,
                                                      premium |-> user.isPremium,
                                                      at |-> at])]
        spot1 == cleanedSpot(spot, user1, beforeImage, afterImage, at)
        db1 == [db EXCEPT !.users[userIdx] = user1, !.spots[spotIdx] = spot1]
    IN IF spotIdx = 0 \/ userIdx = 0 THEN Throw(db, "Spot or user not found.")
       ELSE IF ~approved
       THEN rejectCleanup(db, spotId, userIdx, aiReason, now)
       ELSE Resolve(PushLog(db1, now, <<"Cleanup approved for ", user1.email, earned>>),
                    [approved |-> TRUE, points |-> earned, spot |-> spot1,
                     user |-> sanitizeUser(user1)])

\* the position of u in the sorted sequence s: after every element that the
\* comparator (a, b) => b.points - a.points does not put behind it
\* mutant: the comparator sorts ascending
ByPointsAscending(a, b) == a.points - b.points

\* the comparator (a, b) => b.points - a.points
ByPoints(a, b) == b.points - a.points

InsertByPoints(s, u) ==
    LET k == Cardinality({i \in 1..Len(s) : ByPoints(s[i], u) <= 0})
    IN SubSeq(s, 1, k) \o <<u>> \o SubSeq(s, k + 1, Len(s))

\* Array.prototype.sort with that comparator (a stable sort)
RECURSIVE SortByPoints(_)
SortByPoints(s) ==
    IF s = <<>> THEN <<>>
    ELSE InsertByPoints(SortByPoints(SubSeq(s, 1, Len(s) - 1)), Last(s))

getLeaderboard(db) ==
    LET NotBanned(user) == ~user.banned
        sorted == SortByPoints(SelectSeq(db.users, NotBanned))
    IN Resolve(db, [i \in 1..Len(sorted) |-> sanitizeUser(sorted[i])])

\* mutant: the first n elements
SliceFirst(s, n) == SubSeq(s, 1, Min(n, Len(s)))

\* Array.prototype.slice(-n)
SliceLast(s, n) == SubSeq(s, Max(1, Len(s) - n + 1), Len(s))

getStats(db, now) ==
    LET db1 == applyDecay(db, now)
        Claimed(spot) == spot.status # "unverified"
        NotAdmin(user) == user.role # "admin"
        Premium(user) == user.isPremium
    IN Resolve(db1, [totalTrash |-> Len(SelectSeq(db1.spots, Claimed)),
                     newUsers |-> Len(SelectSeq(db1.users, NotAdmin)),
                     premiumCount |-> Len(SelectSeq(db1.users, Premium)),
                     logs |-> SliceLast(db1.logs, StatsLogs)])

simulateNow(db, offsetDays, now) ==
    LET db1 == [db EXCEPT !.settings = Spread(@, [nowOffsetDays |-> offsetDays])]
    IN Resolve(PushLog(db1, now, <<"Simulated time offset: ", offsetDays>>),
               toISOString(getNow(db1, now)))

\* mutant: the rate is stored as it is given
setAiApprovalRateUnclamped(db, rate, now) ==
    LET db1 == [db EXCEPT !.settings = Spread(@, [aiApprovalRate |-> rate])]
    IN Resolve(PushLog(db1, now, <<"AI approval rate set to ", rate>>), rate)

setAiApprovalRate(db, rate, now) ==
    LET clamped == Min(RateOne, Max(0, rate))
        db1 == [db EXCEPT !.settings = Spread(@, [aiApprovalRate |-> clamped])]
    IN Resolve(PushLog(db1, now, <<"AI approval rate set to ", clamped>>), clamped)

getSettings(db) == Resolve(db, db.settings)

updateThemeSetting(db, theme) ==
    Resolve([db EXCEPT !.settings = Spread(@, [theme |-> theme])], theme)

getAllSpots(db, now) ==
    LET db1 == applyDecay(db, now)
    IN Resolve(db1, db1.spots)

getSessionInfo(raw) == getSession(raw)

\* mutant: clearSession() is left out
resetAllDataKeepsSession(raw, now, uuid) ==
    [db |-> seedAdmin(baseState, now, uuid), sessionRaw |-> raw]

\* resetAllData: the document it saves (it does not load) and
\* localStorage[SESSION_KEY] as it leaves it
resetAllData(raw, now, uuid) ==
    [db |-> seedAdmin(baseState, now, uuid), sessionRaw |-> Absent]

\* logout: localStorage[SESSION_KEY] as it leaves it
logout(raw) == Absent

----------------------------------------------------------------------------
(* Inputs *)

NameInputs == {<<" ", "A", "n">>}
EmailInputs == {<<"a", "@", "x">>, <<" ", "A", "@", "X", " ">>, AdminEmail}
PasswordInputs == {"secret1", "admin123"}
UuidInputs == {[uuid |-> n] : n \in 1..MaxUuid}
UserUpdates == {[email |-> <<"a", "@", "x">>], [points |-> 0, streak |-> 0, role |-> "user"]}
SpotUpdates == {[status |-> "verified"]}
OffsetInputs == {0, 7}
RateInputs == {-1, 11}
ThemeInputs == {"dark"}
BeforeImage == [dataUrl |-> "before"]
AfterImage == [dataUrl |-> "after"]

----------------------------------------------------------------------------
(* The state machine.  Every action takes the bound on the length of the   *)
(* log under which it is explored.                                         *)

\* the document an operation works on, and the UUID counter after its loadDb
Loaded == loadDb(storage, clock, nextUuid)
LoadedUuid == UuidAfterLoad(storage, nextUuid)

WithinBounds(db, uuid, maxLogs) ==
    /\ Len(db.spots) <= MaxSpots
    /\ Len(db.logs) <= maxLogs
    /\ uuid <= MaxUuid

\* the operation saves r.db and leaves the session alone
Saves(r, uuid, maxLogs) ==
    /\ WithinBounds(r.db, uuid, maxLogs)
    /\ storage' = saveDb(r.db)
    /\ nextUuid' = uuid
    /\ UNCHANGED <<sessionRaw, clock, pending>>

Init ==
    /\ storage = Absent
    /\ sessionRaw = Absent
    /\ clock = 0
    /\ nextUuid = 0
    /\ pending = <<>>

Tick ==
    /\ clock < MaxClock
    /\ clock' = clock + 1
    /\ UNCHANGED <<storage, sessionRaw, nextUuid, pending>>

CreateUser(maxLogs) ==
    \E name \in NameInputs, email \in EmailInputs, password \in PasswordInputs :
        LET r == createUser(Loaded, name, email, password, clock, LoadedUuid)
        IN Saves(r, IF r.ok THEN LoadedUuid + 1 ELSE LoadedUuid, maxLogs)

LoginUser(maxLogs) ==
    \E email \in EmailInputs, password \in PasswordInputs :
        LET r == loginUser(Loaded, email, password, clock, sessionRaw)
        IN /\ WithinBounds(r.db, LoadedUuid, maxLogs)
           /\ storage' = saveDb(r.db)
           /\ nextUuid' = LoadedUuid
           /\ sessionRaw' = r.sessionRaw
           /\ UNCHANGED <<clock, pending>>

GetUserById(maxLogs) ==
    \E id \in UuidInputs : Saves(getUserById(Loaded, id), LoadedUuid, maxLogs)

UpdateUser(maxLogs) ==
    \E id \in UuidInputs, updates \in UserUpdates :
        Saves(updateUser(Loaded, id, updates, clock), LoadedUuid, maxLogs)

BanUser(maxLogs) ==
    \E id \in UuidInputs, banned \in BOOLEAN :
        Saves(banUser(Loaded, id, banned, clock), LoadedUuid, maxLogs)

UpgradeToPremium(maxLogs) ==
    \E id \in UuidInputs : Saves(upgradeToPremium(Loaded, id, clock), LoadedUuid, maxLogs)

CreateSpot(maxLogs) ==
    \E reportedBy \in {Null} \cup {Loaded.users[i].id : i \in 1..Len(Loaded.users)} :
        Saves(createSpot(Loaded, 12, 77, reportedBy, clock, LoadedUuid), LoadedUuid + 1,
              maxLogs)

UpdateSpot(maxLogs) ==
    \E id \in UuidInputs, updates \in SpotUpdates :
        Saves(updateSpot(Loaded, id, updates, clock), LoadedUuid, maxLogs)

ResetMapData(maxLogs) == Saves(resetMapData(Loaded, clock), LoadedUuid, maxLogs)

RecordCleanup(maxLogs) ==
    \E spotId \in UuidInputs, userId \in UuidInputs, approved \in BOOLEAN :
        Saves(recordCleanup(Loaded, spotId, userId, BeforeImage, AfterImage, approved,
                            IF approved THEN "Approved" ELSE "AI detected inconsistencies.",
                            clock),
              LoadedUuid, maxLogs)

GetLeaderboard(maxLogs) == Saves(getLeaderboard(Loaded), LoadedUuid, maxLogs)

GetStats(maxLogs) == Saves(getStats(Loaded, clock), LoadedUuid, maxLogs)

SimulateNow(maxLogs) ==
    \E offsetDays \in OffsetInputs :
        Saves(simulateNow(Loaded, offsetDays, clock), LoadedUuid, maxLogs)

SetAiApprovalRate(maxLogs) ==
    \E rate \in RateInputs : Saves(setAiApprovalRate(Loaded, rate, clock), LoadedUuid, maxLogs)

GetSettings(maxLogs) == Saves(getSettings(Loaded), LoadedUuid, maxLogs)

UpdateThemeSetting(maxLogs) ==
    \E theme \in ThemeInputs : Saves(updateThemeSetting(Loaded, theme), LoadedUuid, maxLogs)

GetAllSpots(maxLogs) == Saves(getAllSpots(Loaded, clock), LoadedUuid, maxLogs)

\* getSessionInfo and getSchemaVersion read and write nothing that persists
GetSessionInfo == UNCHANGED vars

GetSchemaVersion == UNCHANGED vars

Logout ==
    /\ sessionRaw' = logout(sessionRaw)
    /\ UNCHANGED <<storage, clock, nextUuid, pending>>

ResetAllData ==
    LET r == resetAllData(sessionRaw, clock, nextUuid)
    IN /\ nextUuid < MaxUuid
       /\ storage' = saveDb(r.db)
       /\ nextUuid' = nextUuid + 1
       /\ sessionRaw' = r.sessionRaw
       /\ UNCHANGED <<clock, pending>>

\* every exported operation, and the passing of real time
Next ==
    \/ Tick
    \/ CreateUser(MaxLogs)
    \/ LoginUser(MaxLogs)
    \/ GetUserById(MaxLogs)
    \/ UpdateUser(MaxLogs)
    \/ BanUser(MaxLogs)
    \/ UpgradeToPremium(MaxLogs)
    \/ CreateSpot(MaxLogs)
    \/ UpdateSpot(MaxLogs)
    \/ ResetMapData(MaxLogs)
    \/ RecordCleanup(MaxLogs)
    \/ GetLeaderboard(MaxLogs)
    \/ GetStats(MaxLogs)
    \/ SimulateNow(MaxLogs)
    \/ SetAiApprovalRate(MaxLogs)
    \/ GetSettings(MaxLogs)
    \/ UpdateThemeSetting(MaxLogs)
    \/ GetAllSpots(MaxLogs)
    \/ GetSessionInfo
    \/ GetSchemaVersion
    \/ Logout
    \/ ResetAllData

Spec == Init /\ [][Next]_vars

\* the cleanup workflow: the operations that claim, clean and age a spot,
\* explored with a longer log
NextCleanup ==
    \/ Tick
    \/ CreateUser(MaxCleanupLogs)
    \/ UpgradeToPremium(MaxCleanupLogs)
    \/ CreateSpot(MaxCleanupLogs)
    \/ RecordCleanup(MaxCleanupLogs)
    \/ SimulateNow(MaxCleanupLogs)
    \/ GetAllSpots(MaxCleanupLogs)
    \/ GetStats(MaxCleanupLogs)

SpecCleanup == Init /\ [][NextCleanup]_vars

----------------------------------------------------------------------------
(* getLeaderboard as a function of the stored users: the documents of      *)
(* InitLeaderboard hold the admin and users signed up after it, with the   *)
(* points and the banned flags they can have come to (the log entries of   *)
(* the cleanups and bans that led there are left out: getLeaderboard does  *)
(* not read the log).                                                      *)

MaxBoardUsers == 3

PointsInputs == {0, 100, 500}

BoardEmail(i) == [k \in 1..i |-> "u"] \o <<"@", "x">>

\* the document after the admin is seeded and n - 1 users have signed up
RECURSIVE SignedUp(_)
SignedUp(n) ==
    IF n = 1 THEN seedAdmin(baseState, 0, 0)
    ELSE createUser(SignedUp(n - 1), <<"A", "n">>, BoardEmail(n), "secret1", 0, n - 1).db

BoardDocs ==
    UNION {{[SignedUp(n) EXCEPT !.users =
                [i \in 1..n |-> [@[i] EXCEPT !.points = pts[i], !.banned = ban[i]]]] :
             pts \in [1..n -> PointsInputs], ban \in [1..n -> BOOLEAN]} :
           n \in 1..MaxBoardUsers}

InitLeaderboard ==
    /\ storage \in {saveDb(db) : db \in BoardDocs}
    /\ sessionRaw = Absent
    /\ clock = 0
    /\ nextUuid = Len(storage.json.users)
    /\ pending = <<>>

NextLeaderboard == GetLeaderboard(MaxBoardUsers + 1)

SpecLeaderboard == InitLeaderboard /\ [][NextLeaderboard]_vars

----------------------------------------------------------------------------
(* loadDb and migrateSchema as functions of what localStorage holds:       *)
(* nothing, a string JSON.parse rejects, or a parseable document of any    *)
(* version with any of its fields missing.                                 *)

RawKeys == {"version", "users", "spots", "logs", "settings", "legacy"}

RawFull ==
    [version : {0, 1, 2},
     users : {<<>>, seedAdmin(baseState, 0, 0).users},
     spots : {<<>>},
     logs : {<<>>, seedAdmin(baseState, 0, 0).logs},
     settings : {baseState.settings,
                 [theme |-> "dark"],
                 [theme |-> "dark", aiApprovalRate |-> 0, nowOffsetDays |-> 7]},
     legacy : {TRUE}]

RawDocs == {[k \in keys |-> full[k]] : full \in RawFull, keys \in SUBSET RawKeys}

InitMigrate ==
    /\ storage \in {Absent, Garbage} \cup {saveDb(db) : db \in RawDocs}
    /\ sessionRaw = Absent
    /\ clock = 0
    /\ nextUuid = 1
    /\ pending = <<>>

NextMigrate == GetSettings(MaxLogs)

SpecMigrate == InitMigrate /\ [][NextMigrate]_vars

----------------------------------------------------------------------------
(* Properties.  A property of an operation is stated of the call made in   *)
(* any reachable state with any input: the operation's result as the       *)
(* action of that name computes it.                                        *)

HasDoc == storage # Absent /\ storage # Garbage

\* the persisted document
Doc == storage.json

Indices(seq) == 1..Len(seq)

UserIds(db) == {db.users[i].id : i \in Indices(db.users)}
SpotIds(db) == {db.spots[i].id : i \in Indices(db.spots)}

UserOf(db, id) == db.users[CHOOSE i \in Indices(db.users) : db.users[i].id = id]

\* the simulated now: the real time plus nowOffsetDays
SimulatedNow(db) == clock + db.settings.nowOffsetDays

\* C1: an approved recordCleanup on an existing spot and user adds exactly 50
\* points to a user who is not premium and exactly 100 to a premium user, adds
\* exactly 1 to the streak, and returns the points added.
C1_ApprovedCleanupAward ==
    \A spotId \in UuidInputs, userId \in UuidInputs :
        LET db == Loaded
            r == recordCleanup(db, spotId, userId, BeforeImage, AfterImage, TRUE,
                               "Approved", clock)
            before == UserOf(db, userId)
            after == UserOf(r.db, userId)
        IN (spotId \in SpotIds(db) /\ userId \in UserIds(db)) =>
              /\ r.ok
              /\ r.value.approved
              /\ after.points = before.points + (IF before.isPremium THEN 100 ELSE 50)
              /\ after.streak = before.streak + 1
              /\ r.value.points = after.points - before.points

\* C1 witness: an approved cleanup has been recorded for a user who is not premium
\* and for one who is.
C1_Witness ==
    /\ HasDoc
    /\ \E i \in Indices(Doc.users) :
          /\ ~Doc.users[i].isPremium
          /\ Len(Doc.users[i].cleanups) = 1
          /\ Doc.users[i].points = 50
    /\ \E i \in Indices(Doc.users) :
          /\ Doc.users[i].isPremium
          /\ Len(Doc.users[i].cleanups) = 1
          /\ Doc.users[i].points = 600

\* C2: a recordCleanup that is not approved leaves the users, the spots and the
\* settings of the persisted document as they were, appends one rejection entry
\* to the log and returns the reason.
C2_RejectedCleanupFrame ==
    \A spotId \in UuidInputs, userId \in UuidInputs :
        LET r == recordCleanup(Loaded, spotId, userId, BeforeImage, AfterImage, FALSE,
                               "AI detected inconsistencies.", clock)
        IN (HasDoc /\ spotId \in SpotIds(Loaded) /\ userId \in UserIds(Loaded)) =>
              /\ r.ok
              /\ r.value = [approved |-> FALSE, reason |-> "AI detected inconsistencies."]
              /\ r.db.users = Doc.users
              /\ r.db.spots = Doc.spots
              /\ r.db.settings = Doc.settings
              /\ Len(r.db.logs) = Len(Doc.logs) + 1
              /\ SubSeq(r.db.logs, 1, Len(Doc.logs)) = Doc.logs
              /\ Last(r.db.logs) =
                    [at |-> [iso |-> SimulatedNow(Doc)],
                     message |-> <<"Cleanup rejected for spot ", spotId,
                                   "AI detected inconsistencies.">>]

\* C2 witness: a cleanup has been rejected (the last log entry says so) for a
\* document whose seeded admin has points and a streak to lose.
C2_Witness ==
    /\ HasDoc
    /\ Last(Doc.logs).message[1] = "Cleanup rejected for spot "
    /\ Doc.spots # <<>>
    /\ \E i \in Indices(Doc.users) : Doc.users[i].streak > 0

\* whether a spot was last updated more than 7 days before the simulated now
OlderThanAWeek(db, spot) == SimulatedNow(db) - spot.updatedAt.iso > 7

\* C3: getAllSpots returns every spot last updated more than 7 simulated days
\* ago as unverified, whatever its status was, and getStats counts in totalTrash
\* only the verified or premium spots that are not that old.
C3_StaleSpotsReadUnverified ==
    LET db == Loaded
        spots == getAllSpots(db, clock).value
        stats == getStats(db, clock).value
    IN /\ Len(spots) = Len(db.spots)
       /\ \A i \in Indices(db.spots) :
             OlderThanAWeek(db, db.spots[i]) => spots[i].status = "unverified"
       /\ stats.totalTrash =
             Cardinality({i \in Indices(db.spots) :
                             /\ ~OlderThanAWeek(db, db.spots[i])
                             /\ db.spots[i].status \in {"verified", "premium"}})

\* C3 witness: a spot that a cleanup made verified or premium is stored as
\* unverified (a read has demoted it), and it is exactly 8 days old.
C3_Witness ==
    /\ HasDoc
    /\ \E i \in Indices(Doc.spots) :
          /\ Doc.spots[i].status = "unverified"
          /\ Doc.spots[i].verifiedBy # Null
          /\ SimulatedNow(Doc) - Doc.spots[i].updatedAt.iso = 8

\* C4: no two users of the persisted document have the same e-mail address.
C4_EmailsUnique ==
    HasDoc =>
        \A i \in Indices(Doc.users), j \in Indices(Doc.users) :
            i # j => Doc.users[i].email # Doc.users[j].email

\* C5: createUser with an e-mail that, trimmed and lower-cased, is the e-mail of
\* a user of the persisted document fails with the duplicate-email error and
\* leaves the document, its users and its log included, as it was.
C5_DuplicateEmailRejected ==
    \A name \in NameInputs, email \in EmailInputs, password \in PasswordInputs :
        LET r == createUser(Loaded, name, email, password, clock, LoadedUuid)
        IN (/\ HasDoc
            /\ \E i \in Indices(Doc.users) : Doc.users[i].email = toLowerCase(trim(email))) =>
              /\ ~r.ok
              /\ r.value = "Email already registered."
              /\ r.db.users = Doc.users
              /\ r.db.logs = Doc.logs
              /\ r.db = Doc

\* C5 witness: a user has signed up with the address that " A@X " normalises to,
\* so that an input that differs from the stored address in case and padding is
\* a duplicate.
C5_Witness ==
    /\ HasDoc
    /\ \E i \in Indices(Doc.users) :
          /\ Doc.users[i].role = "user"
          /\ Doc.users[i].email # <<" ", "A", "@", "X", " ">>
          /\ Doc.users[i].email = toLowerCase(trim(<<" ", "A", "@", "X", " ">>))

\* C6: a user that createUser stored for an e-mail and a password, and that is
\* not banned and not updated since (its e-mail, password hash and role are the
\* ones createUser gave it), logs in with that e-mail and password: loginUser
\* resolves, persists a session with the user's id and the role 'user', and
\* returns that user.
C6_SignupThenLogin ==
    HasDoc =>
        \A i \in Indices(Doc.users), email \in EmailInputs, password \in PasswordInputs :
            LET user == Doc.users[i]
                r == loginUser(Loaded, email, password, clock, sessionRaw)
            IN (/\ user.role = "user"
                /\ ~user.banned
                /\ user.email = toLowerCase(trim(email))
                /\ user.passwordHash = hashSync(password)) =>
                  /\ r.ok
                  /\ r.sessionRaw # Absent
                  /\ getSession(r.sessionRaw).userId = user.id
                  /\ getSession(r.sessionRaw).role = "user"
                  /\ r.value.user = Without(user, "passwordHash")

\* the user loginUser looks up: the first whose e-mail is the normalised input
Resolved(db, email) ==
    LET matches == {i \in Indices(db.users) : db.users[i].email = toLowerCase(trim(email))}
    IN IF matches = {} THEN Null
       ELSE db.users[CHOOSE i \in matches : \A j \in matches : i <= j]

\* C7: loginUser fails with the not-found error when no user has the e-mail,
\* with the banned error when the user is banned, whatever the password, and
\* with the invalid-credential error when the user is not banned and the
\* password is not the user's; a login that fails leaves the session store as
\* it was.
C7_LoginFailures ==
    \A email \in EmailInputs, password \in PasswordInputs :
        LET db == Loaded
            user == Resolved(db, email)
            r == loginUser(db, email, password, clock, sessionRaw)
        IN /\ user = Null => ~r.ok /\ r.value = "No account found for this email."
           /\ (user # Null /\ user.banned) =>
                 ~r.ok /\ r.value = "This account is banned. Contact support."
           /\ (user # Null /\ ~user.banned /\ user.passwordHash # hashSync(password)) =>
                 ~r.ok /\ r.value = "Incorrect password."
           /\ ~r.ok => r.sessionRaw = sessionRaw

\* C7 witness: a session is stored, one user is banned and another is not, so
\* that each failure has a session to leave alone.
C7_Witness ==
    /\ HasDoc
    /\ sessionRaw # Absent
    /\ \E i \in Indices(Doc.users) : Doc.users[i].banned
    /\ \E i \in Indices(Doc.users) : ~Doc.users[i].banned

\* C8: getLeaderboard returns the users that are not banned, each once and
\* without its password hash, by points descending and, for equal points, in the
\* order they are stored; a second call on the document the first one saved
\* returns the same sequence.
C8_Leaderboard ==
    LET db == Loaded
        r == getLeaderboard(db)
        board == r.value
        notBanned == {i \in Indices(db.users) : ~db.users[i].banned}
    IN /\ Len(board) = Cardinality(notBanned)
       /\ \E f \in [Indices(board) -> notBanned] :
             /\ \A k \in Indices(board) : board[k] = Without(db.users[f[k]], "passwordHash")
             /\ \A k \in Indices(board), l \in Indices(board) :
                   k < l => \/ db.users[f[k]].points > db.users[f[l]].points
                            \/ /\ db.users[f[k]].points = db.users[f[l]].points
                               /\ f[k] < f[l]
       /\ getLeaderboard(loadDb(saveDb(r.db), clock, LoadedUuid)).value = board

\* C8 witness: a user stored later has more points than one stored before it,
\* both not banned, and a third user is banned.
C8_Witness ==
    /\ HasDoc
    /\ \E i \in Indices(Doc.users), j \in Indices(Doc.users) :
          /\ i < j
          /\ ~Doc.users[i].banned
          /\ ~Doc.users[j].banned
          /\ Doc.users[i].points < Doc.users[j].points
    /\ \E i \in Indices(Doc.users) : Doc.users[i].banned

\* C9: resetAllData leaves a document with one user, the seeded admin, no spots
\* and the default settings, and an empty session store.
C9_ResetAllData ==
    LET r == resetAllData(sessionRaw, clock, nextUuid)
    IN /\ Len(r.db.users) = 1
       /\ r.db.users[1].email = AdminEmail
       /\ r.db.users[1].role = "admin"
       /\ r.db.spots = <<>>
       /\ r.db.settings = [theme |-> "system", aiApprovalRate |-> 7, nowOffsetDays |-> 0]
       /\ getSessionInfo(r.sessionRaw) = Null

\* C9 witness: the document is the one a reset leaves (its admin is seeded anew,
\* with a later UUID than the first admin's) and no session is stored.
C9_Witness ==
    /\ HasDoc
    /\ Len(Doc.users) = 1
    /\ Doc.users[1].id = [uuid |-> nextUuid]
    /\ nextUuid > 1
    /\ Doc.spots = <<>>
    /\ Len(Doc.logs) = 1
    /\ sessionRaw = Absent

\* whether a parsed document is at the current version with every field present
IsCurrent(db) ==
    /\ {"version", "users", "spots", "logs", "settings"} \subseteq DOMAIN db
    /\ db.version = 1

\* C10: migrateSchema is idempotent, it returns a document that is at the
\* current version with all its fields as it is, and a load after a load returns
\* and persists what the first load did.
C10_MigrateIdempotent ==
    /\ HasDoc =>
          LET migrated == migrateSchema(Doc)
          IN /\ migrateSchema(migrated) = migrated
             /\ IsCurrent(Doc) => migrated = Doc
    /\ loadDb(saveDb(Loaded), clock, LoadedUuid) = Loaded

\* C10 witness: the stored document is at the current version with every field,
\* a user, settings that are not the defaults and a field the schema does not
\* know.
C10_Witness ==
    /\ HasDoc
    /\ IsCurrent(Doc)
    /\ "legacy" \in DOMAIN Doc
    /\ Doc.users # <<>>
    /\ Doc.settings = [theme |-> "dark"]

SettingsFields == {"theme", "aiApprovalRate", "nowOffsetDays"}

\* C11: the migrated document of every parseable stored document is at the
\* current schema version, has users, spots, logs and the three settings
\* fields, those the stored document lacks at their defaults, and keeps every
\* recognized field the stored document has.
C11_MigrateFillsDefaults ==
    HasDoc =>
        LET migrated == migrateSchema(Doc)
            stored == IF "settings" \in DOMAIN Doc THEN Doc.settings ELSE <<>>
        IN /\ migrated.version = SCHEMA_VERSION
           /\ {"users", "spots", "logs", "settings"} \subseteq DOMAIN migrated
           /\ \A k \in DOMAIN Doc \cap {"users", "spots", "logs"} : migrated[k] = Doc[k]
           /\ SettingsFields \subseteq DOMAIN migrated.settings
           /\ \A f \in SettingsFields :
                 migrated.settings[f] =
                    IF f \in DOMAIN stored THEN stored[f] ELSE baseState.settings[f]

\* C12: the document a load returns, whatever the storage holds, contains the
\* seeded admin.
C12_LoadSeedsAdmin ==
    \E i \in Indices(Loaded.users) :
        /\ Loaded.users[i].email = AdminEmail
        /\ Loaded.users[i].role = "admin"

ClaimedStatuses == {"verified", "premium"}

\* whether the step from the current state is an approved recordCleanup on the
\* spot with this id
IsApprovedCleanupOf(spotId) ==
    \E userId \in UuidInputs :
        LET r == recordCleanup(Loaded, spotId, userId, BeforeImage, AfterImage, TRUE,
                               "Approved", clock)
        IN r.ok /\ storage' = saveDb(r.db)

\* C13: in every step, a spot that comes to have the status verified or premium
\* (it had another status, or was not there) gets it from an approved
\* recordCleanup on that spot.
C13_StatusOnlyByCleanup ==
    [][(storage' # Absent /\ storage' # Garbage) =>
          \A j \in Indices(storage'.json.spots) :
              LET spot == storage'.json.spots[j]
                  had == \E i \in Indices(Loaded.spots) :
                            /\ Loaded.spots[i].id = spot.id
                            /\ Loaded.spots[i].status = spot.status
              IN (spot.status \in ClaimedStatuses /\ ~had) => IsApprovedCleanupOf(spot.id)]_vars

\* what the calls that fail in the current state leave: the document the call
\* has saved last and localStorage[SESSION_KEY]
FailedCalls ==
    LET Left(r) == [db |-> r.db, ok |-> r.ok, sessionRaw |-> sessionRaw]
        calls ==
            {Left(createUser(Loaded, name, email, password, clock, LoadedUuid)) :
                name \in NameInputs, email \in EmailInputs, password \in PasswordInputs}
            \cup {Left(updateUser(Loaded, id, updates, clock)) :
                     id \in UuidInputs, updates \in UserUpdates}
            \cup {Left(banUser(Loaded, id, banned, clock)) :
                     id \in UuidInputs, banned \in BOOLEAN}
            \cup {Left(upgradeToPremium(Loaded, id, clock)) : id \in UuidInputs}
            \cup {Left(updateSpot(Loaded, id, updates, clock)) :
                     id \in UuidInputs, updates \in SpotUpdates}
            \cup {Left(recordCleanup(Loaded, spotId, userId, BeforeImage, AfterImage,
                                     approved, "Approved", clock)) :
                     spotId \in UuidInputs, userId \in UuidInputs, approved \in BOOLEAN}
            \cup {Without(loginUser(Loaded, email, password, clock, sessionRaw), "value") :
                     email \in EmailInputs, password \in PasswordInputs}
    IN {c \in calls : ~c.ok}

\* C14, as stated: a call that fails leaves the persisted document and the
\* session store as they were before the call.
C14_FailedOpPersistsNothing ==
    \A c \in FailedCalls : saveDb(c.db) = storage /\ c.sessionRaw = sessionRaw

\* C14, amended: a call that fails leaves the session store as it was and
\* persists the document its loadDb returned, without any change of its own:
\* the freshly seeded document when the storage was empty or unparseable, the
\* stored document itself when the storage held one.
C14_FailedOpPersistsLoadOnly ==
    \A c \in FailedCalls :
        /\ c.db = Loaded
        /\ c.sessionRaw = sessionRaw
        /\ HasDoc => saveDb(c.db) = storage

\* C14 witness: a document with a spot and a stored session, and an id that is
\* neither a user's nor a spot's, so that calls of every operation fail.
C14_Witness ==
    /\ HasDoc
    /\ sessionRaw # Absent
    /\ Doc.spots # <<>>
    /\ \E id \in UuidInputs : id \notin UserIds(Doc) /\ id \notin SpotIds(Doc)
    /\ \E c \in FailedCalls : c.db = Doc

\* whether the step from the current state is a resetAllData
IsResetAllData ==
    LET r == resetAllData(sessionRaw, clock, nextUuid)
    IN /\ storage' = saveDb(r.db)
       /\ sessionRaw' = r.sessionRaw
       /\ nextUuid' = nextUuid + 1

\* C15: in every step that is not a resetAllData, every user has after the step
\* at least the points and the streak it had before.
C15_PointsNeverDecrease ==
    [][(storage' # Absent /\ storage' # Garbage /\ ~IsResetAllData) =>
          \A i \in Indices(Loaded.users), j \in Indices(storage'.json.users) :
              Loaded.users[i].id = storage'.json.users[j].id =>
                  /\ storage'.json.users[j].points >= Loaded.users[i].points
                  /\ storage'.json.users[j].streak >= Loaded.users[i].streak]_vars

\* the user records that the calls made in the current state resolve with
ReturnedUsers ==
    LET db == Loaded
        User(r) == IF r.ok /\ r.value # Null THEN {r.value} ELSE {}
        UserOfPair(r) == IF r.ok THEN {r.value.user} ELSE {}
        board == getLeaderboard(db).value
    IN UNION ({User(createUser(db, name, email, password, clock, LoadedUuid)) :
                  name \in NameInputs, email \in EmailInputs, password \in PasswordInputs}
              \cup {User(getUserById(db, id)) : id \in UuidInputs}
              \cup {User(updateUser(db, id, updates, clock)) :
                       id \in UuidInputs, updates \in UserUpdates}
              \cup {User(banUser(db, id, banned, clock)) :
                       id \in UuidInputs, banned \in BOOLEAN}
              \cup {User(upgradeToPremium(db, id, clock)) : id \in UuidInputs}
              \cup {UserOfPair(loginUser(db, email, password, clock, sessionRaw)) :
                       email \in EmailInputs, password \in PasswordInputs}
              \cup {UserOfPair(recordCleanup(db, spotId, userId, BeforeImage, AfterImage,
                                             TRUE, "Approved", clock)) :
                       spotId \in UuidInputs, userId \in UuidInputs})
       \cup {board[k] : k \in Indices(board)}

\* C16: no user record that an exported operation returns has the field
\* passwordHash.
C16_NoPasswordHashReturned ==
    \A user \in ReturnedUsers : "passwordHash" \notin DOMAIN user

\* C16 witness: two users are stored, each with its password hash, one of them
\* has logged in, and there is a spot to clean, so that every operation that
\* returns a user record resolves.
C16_Witness ==
    /\ HasDoc
    /\ Len(Doc.users) >= 2
    /\ \A i \in Indices(Doc.users) : "passwordHash" \in DOMAIN Doc.users[i]
    /\ sessionRaw # Absent
    /\ Doc.spots # <<>>
    /\ Cardinality(ReturnedUsers) >= 2

\* the users of a document that are premium
PremiumIds(db) == {db.users[i].id : i \in {k \in Indices(db.users) : db.users[k].isPremium}}

\* C17: upgradeToPremium on a user who is premium already leaves the persisted
\* document as it was.
C17_UpgradeAgainIsNoOp ==
    HasDoc =>
        \A id \in PremiumIds(Doc) : saveDb(upgradeToPremium(Loaded, id, clock).db) = storage

SpotOf(db, id) == db.spots[CHOOSE i \in Indices(db.spots) : db.spots[i].id = id]

\* C18: an approved recordCleanup by a user on a spot leaves the spot premium
\* if the user is premium and verified otherwise, verified by the user, with
\* premiumCleanup the user's premium flag, both images and updatedAt the
\* simulated now; a read made less than 7 simulated days later returns the spot
\* with that status, and getStats counts it.
C18_CleanupResetsDecay ==
    \A spotId \in UuidInputs, userId \in UuidInputs :
        LET db == Loaded
            r == recordCleanup(db, spotId, userId, BeforeImage, AfterImage, TRUE,
                               "Approved", clock)
            user == UserOf(db, userId)
            spot == SpotOf(r.db, spotId)
        IN (spotId \in SpotIds(db) /\ userId \in UserIds(db)) =>
              /\ r.ok
              /\ spot.status = IF user.isPremium THEN "premium" ELSE "verified"
              /\ spot.verifiedBy = user.id
              /\ spot.premiumCleanup = user.isPremium
              /\ spot.beforeImage = BeforeImage
              /\ spot.afterImage = AfterImage
              /\ spot.updatedAt = toISOString(SimulatedNow(db))
              /\ r.value.spot = spot
              /\ \A later \in 0..(DecayDays - 1) :
                    /\ SpotOf(getAllSpots(r.db, clock + later).db, spotId).status = spot.status
                    /\ SpotOf(getAllSpots(r.db, clock + later).db, spotId) \in
                          {getAllSpots(r.db, clock + later).value[i] : i \in Indices(r.db.spots)}
                    /\ getStats(r.db, clock + later).value.totalTrash >= 1

\* C18 witness: a spot created 8 simulated days ago, and so stale, has just been
\* cleaned for the first time: it is verified or premium with updatedAt the
\* simulated now, and the document holds one cleanup record.
C18_Witness ==
    /\ HasDoc
    /\ \E i \in Indices(Doc.spots) :
          /\ Doc.spots[i].status \in ClaimedStatuses
          /\ Doc.spots[i].updatedAt = toISOString(SimulatedNow(Doc))
          /\ Doc.spots[i].createdAt = toISOString(SimulatedNow(Doc) - 8)
          /\ \A j \in Indices(Doc.users) :
                \A k \in Indices(Doc.users[j].cleanups) :
                    Doc.users[j].cleanups[k].at = Doc.spots[i].updatedAt

\* C19: the persisted document contains a user with the e-mail
\* admin@greengrid.com and the role admin.
C19_AdminRemains ==
    HasDoc =>
        \E i \in Indices(Doc.users) :
            Doc.users[i].email = AdminEmail /\ Doc.users[i].role = "admin"

----------------------------------------------------------------------------
(* Calls in flight.  An async function runs, when it is called, up to its  *)
(* first await in the caller's turn of the event loop; what follows the    *)
(* await runs in a later turn, and other calls can run in between.  The    *)
(* mutating operations have no await between loadDb and saveDb: the only   *)
(* promise they wait for is the timer of latency(), made after saveDb.     *)

MaxCalls == 3

\* mutant: every operation awaits between its loadDb and its saveDb
AwaitsBeforeSaveAlways == TRUE

\* whether an await stands between an operation's loadDb and its saveDb
AwaitsBeforeSave == FALSE

\* the calls made: two rapid clicks make the same call twice
CallInputs ==
    {[op |-> "createSpot", spotId |-> Null, userId |-> Null]}
    \cup {[op |-> "createUser", spotId |-> Null, userId |-> Null]}
    \cup {[op |-> "recordCleanup", spotId |-> spotId, userId |-> randomUUID(0)] :
             spotId \in UuidInputs}

\* the operation of a call on the document it has loaded
Apply(call, db, now, uuid) ==
    CASE call.op = "createSpot" -> createSpot(db, 12, 77, Null, now, uuid)
      [] call.op = "createUser" ->
            createUser(db, <<"A", "n">>, <<"a", "@", "x">>, "secret1", now, uuid)
      [] call.op = "recordCleanup" ->
            recordCleanup(db, call.spotId, call.userId, BeforeImage, AfterImage, TRUE,
                          "Approved", now)

\* the UUIDs the call has drawn for users and spots
UuidsDrawn(call, r) == IF r.ok /\ call.op \in {"createSpot", "createUser"} THEN 1 ELSE 0

\* the call after its load-mutate-save: waiting for the timer of latency(), or
\* rejected by the error thrown
AfterSave(call, r) ==
    [call EXCEPT !.pc = IF r.ok THEN "latency" ELSE "rejected", !.db = Null]

\* a call is made: it runs up to its first await
Invoke ==
    \E input \in CallInputs :
        LET call == [op |-> input.op, spotId |-> input.spotId, userId |-> input.userId,
                     pc |-> "called", db |-> Null]
            db == Loaded
            r == Apply(call, db, clock, LoadedUuid)
        IN /\ Len(pending) < MaxCalls
           /\ IF AwaitsBeforeSave
              THEN /\ WithinBounds(db, LoadedUuid, MaxCalls + 1)
                   /\ storage' = saveDb(db)
                   /\ nextUuid' = LoadedUuid
                   /\ pending' = Append(pending, [call EXCEPT !.pc = "loaded", !.db = db])
              ELSE /\ WithinBounds(r.db, LoadedUuid + UuidsDrawn(call, r), MaxCalls + 1)
                   /\ storage' = saveDb(r.db)
                   /\ nextUuid' = LoadedUuid + UuidsDrawn(call, r)
                   /\ pending' = Append(pending, AfterSave(call, r))
           /\ UNCHANGED <<sessionRaw, clock>>

\* a call in flight goes on in a later turn: after an await between loadDb and
\* saveDb it mutates and saves the document it holds; after latency() its
\* promise resolves
Continue ==
    \E i \in 1..Len(pending) :
        LET call == pending[i]
            r == Apply(call, call.db, clock, nextUuid)
        IN /\ call.pc \in {"loaded", "latency"}
           /\ IF call.pc = "loaded"
              THEN /\ WithinBounds(r.db, nextUuid + UuidsDrawn(call, r), MaxCalls + 1)
                   /\ storage' = saveDb(r.db)
                   /\ nextUuid' = nextUuid + UuidsDrawn(call, r)
                   /\ pending' = [pending EXCEPT ![i] = AfterSave(call, r)]
              ELSE /\ pending' = [pending EXCEPT ![i].pc = "resolved"]
                   /\ UNCHANGED <<storage, nextUuid>>
           /\ UNCHANGED <<sessionRaw, clock>>

NextConcurrent == Invoke \/ Continue

SpecConcurrent == Init /\ [][NextConcurrent]_vars

\* the calls of an operation that have mutated and saved
Saved(op) == {i \in 1..Len(pending) :
                 pending[i].op = op /\ pending[i].pc \in {"latency", "resolved"}}

\* the number of cleanup records of all users
RECURSIVE CleanupCount(_)
CleanupCount(users) ==
    IF users = <<>> THEN 0 ELSE Len(Head(users).cleanups) + CleanupCount(Tail(users))

\* the mutation of every call that has saved is in the persisted document
NoUpdateLost ==
    /\ Len(Doc.logs) = 1 + Cardinality(Saved("createSpot")) + Cardinality(Saved("createUser"))
                         + Cardinality(Saved("recordCleanup"))
    /\ Len(Doc.spots) = Cardinality(Saved("createSpot"))
    /\ Len(Doc.users) = 1 + Cardinality(Saved("createUser"))
    /\ CleanupCount(Doc.users) = Cardinality(Saved("recordCleanup"))

\* two calls of which the second was made before the promise of the first
\* resolved, and both have saved
TwoInFlight ==
    \E i \in 1..Len(pending), j \in 1..Len(pending) :
        i < j /\ pending[i].pc = "latency" /\ pending[j].pc = "latency"

\* C20, as stated, of the run it describes: when the second of two mutating
\* calls is made before the promise of the first resolves, a mutation is
\* missing from the persisted document.
C20_ConcurrentCallsLoseUpdate == TwoInFlight => ~NoUpdateLost

\* C20, amended: in every reachable state, calls in flight or not, the persisted
\* document holds the mutation of every call that has saved: one log entry per
\* call, every spot and user created and every cleanup recorded.  No update is
\* lost.
C20_NoLostUpdate == HasDoc => NoUpdateLost

\* C20 witness: two cleanups of the same spot by the same user (two rapid
\* clicks) are in flight together, the second made before the promise of the
\* first resolved, and the user has the award of both.
C20_Witness ==
    /\ HasDoc
    /\ \E i \in 1..Len(pending), j \in 1..Len(pending) :
          /\ i < j
          /\ pending[i].pc = "latency" /\ pending[j].pc = "latency"
          /\ pending[i].op = "recordCleanup"
          /\ pending[j] = pending[i]
    /\ Len(Doc.users[1].cleanups) = 2
    /\ Doc.users[1].points = AdminPoints + 2 * earnedPoints(Doc.users[1])

----------------------------------------------------------------------------
(* Decay: the operations that create, clean, age, read and update a spot,  *)
(* the seeded admin acting.                                                *)

MaxDecayLogs == 4

NextDecay ==
    \/ Tick
    \/ CreateSpot(MaxDecayLogs)
    \/ UpdateSpot(MaxDecayLogs)
    \/ RecordCleanup(MaxDecayLogs)
    \/ SimulateNow(MaxDecayLogs)
    \/ GetAllSpots(MaxDecayLogs)
    \/ GetStats(MaxDecayLogs)

SpecDecay == Init /\ [][NextDecay]_vars

\* whether the step from the current state is a getAllSpots or a getStats (both
\* save the loaded document after applyDecay)
IsRead == storage' = saveDb(getAllSpots(Loaded, clock).db)

\* a spot that a read has demoted: it was cleaned once and is unverified
Demoted(spot) == spot.status = "unverified" /\ spot.verifiedBy # Null

\* C21: a read persists the status unverified of every stale spot, and a
\* demoted spot stays unverified in every step (reads after simulateNow has
\* moved the clock back included) that is not an approved recordCleanup on it.
C21_DemotionDurable ==
    [][(storage' # Absent /\ storage' # Garbage) =>
          /\ IsRead =>
                \A i \in Indices(Loaded.spots) :
                    OlderThanAWeek(Loaded, Loaded.spots[i]) =>
                        storage'.json.spots[i].status = "unverified"
          /\ \A i \in Indices(Loaded.spots), j \in Indices(storage'.json.spots) :
                (/\ Loaded.spots[i].id = storage'.json.spots[j].id
                 /\ Demoted(Loaded.spots[i])
                 /\ storage'.json.spots[j].status # "unverified")
                    => IsApprovedCleanupOf(Loaded.spots[i].id)]_vars

\* C22: getAllSpots and getStats save (and getAllSpots returns) every spot that
\* is not older than a week exactly as it was, whatever its status, and every
\* older spot with nothing but its status changed.
C22_ReadsChangeOnlyStaleStatus ==
    LET db == Loaded
        all == getAllSpots(db, clock)
        stats == getStats(db, clock)
    IN /\ all.value = all.db.spots
       /\ \A after \in {all.db.spots, stats.db.spots} :
             /\ Len(after) = Len(db.spots)
             /\ \A i \in Indices(db.spots) :
                   IF OlderThanAWeek(db, db.spots[i])
                   THEN after[i] = [db.spots[i] EXCEPT !.status = after[i].status]
                   ELSE after[i] = db.spots[i]

\* C22 witness: a read has demoted a cleaned spot that is 8 days old, and the
\* document has another spot that is exactly 7 days old.
C22_Witness ==
    /\ HasDoc
    /\ \E i \in Indices(Doc.spots), j \in Indices(Doc.spots) :
          /\ Demoted(Doc.spots[i])
          /\ Doc.spots[i].beforeImage = BeforeImage
          /\ SimulatedNow(Doc) - Doc.spots[i].updatedAt.iso = 8
          /\ SimulatedNow(Doc) - Doc.spots[j].updatedAt.iso = 7

\* C23: in every step that is not a resetAllData the log that was loaded is a
\* prefix of the log that is saved, and a step that changes the users, the
\* spots or a setting other than the theme saves a longer log.
C23_LogIsAuditTrail ==
    [][(storage' # Absent /\ storage' # Garbage /\ ~IsResetAllData) =>
          LET before == Loaded
              after == storage'.json
          IN /\ Len(after.logs) >= Len(before.logs)
             /\ SubSeq(after.logs, 1, Len(before.logs)) = before.logs
             /\ (\/ after.users # before.users
                 \/ after.spots # before.spots
                 \/ Without(after.settings, "theme") # Without(before.settings, "theme"))
                    => Len(after.logs) > Len(before.logs)]_vars

\* C24: a step changes localStorage[SESSION_KEY] only if it is a loginUser that
\* succeeds, a logout or a resetAllData (so a banUser on the logged-in user
\* leaves the session for getSessionInfo to return), and after a logout
\* getSessionInfo returns null.
C24_SessionFrame ==
    [][/\ getSessionInfo(logout(sessionRaw)) = Null
       /\ sessionRaw' # sessionRaw =>
             \/ \E email \in EmailInputs, password \in PasswordInputs :
                   LET r == loginUser(Loaded, email, password, clock, sessionRaw)
                   IN r.ok /\ sessionRaw' = r.sessionRaw /\ storage' = saveDb(r.db)
             \/ sessionRaw' = logout(sessionRaw) /\ storage' = storage
             \/ IsResetAllData]_vars

\* C24 witness: the user of the stored session has been banned since the login.
C24_Witness ==
    /\ HasDoc
    /\ getSessionInfo(sessionRaw) # Null
    /\ \E i \in Indices(Doc.users) :
          /\ Doc.users[i].id = getSessionInfo(sessionRaw).userId
          /\ Doc.users[i].banned
          /\ Last(Doc.logs).message = <<"Banned", " user: ", Doc.users[i].email>>

\* the timestamps that the operations, called at the real time t on the document
\* db, write into the document or into the session
TimestampsWritten(db, t, uuid) ==
    LET Users(r) == IF r.ok THEN {Last(r.db.users).createdAt} ELSE {}
        Spots(r) == IF r.ok THEN {Last(r.db.spots).createdAt, Last(r.db.spots).updatedAt}
                    ELSE {}
        Updated(r) == IF r.ok THEN {r.value.updatedAt} ELSE {}
        Logged(r) == IF r.ok THEN {Last(r.db.logs).at} ELSE {}
        Session(r) == IF r.ok THEN {r.sessionRaw.json.loggedInAt} ELSE {}
        Cleaned(r) == IF r.ok
                      THEN {r.value.spot.updatedAt, r.value.user.lastCleanupAt,
                            Last(r.value.user.cleanups).at}
                      ELSE {}
    IN UNION ({Users(r) \cup Logged(r) :
                  r \in {createUser(db, n, e, p, t, uuid) :
                            n \in NameInputs, e \in EmailInputs, p \in PasswordInputs}}
              \cup {Session(loginUser(db, e, p, t, Absent)) :
                      e \in EmailInputs, p \in PasswordInputs}
              \cup {Logged(updateUser(db, id, u, t)) : id \in UuidInputs, u \in UserUpdates}
              \cup {Logged(banUser(db, id, b, t)) : id \in UuidInputs, b \in BOOLEAN}
              \cup {Logged(upgradeToPremium(db, id, t)) : id \in UuidInputs}
              \cup {Spots(r) \cup Logged(r) : r \in {createSpot(db, 12, 77, Null, t, uuid)}}
              \cup {Updated(updateSpot(db, id, u, t)) : id \in UuidInputs, u \in SpotUpdates}
              \cup {Logged(resetMapData(db, t))}
              \cup {Cleaned(r) \cup Logged(r) :
                      r \in {recordCleanup(db, s, u, BeforeImage, AfterImage, TRUE,
                                           "Approved", t) :
                                s \in UuidInputs, u \in UuidInputs}}
              \cup {Logged(recordCleanup(db, s, u, BeforeImage, AfterImage, FALSE,
                                         "Rejected", t)) :
                      s \in UuidInputs, u \in UuidInputs}
              \cup {Logged(setAiApprovalRate(db, rate, t)) : rate \in RateInputs})

\* C25: simulateNow(n) sets nowOffsetDays to n, appends one log entry and leaves
\* the users, the spots, the other settings and the earlier log entries as they
\* are, so every stored timestamp keeps its value; every timestamp that an
\* operation writes afterwards, at once or a day later, is the real time plus n
\* days.
C25_SimulateNowShiftsLaterTimestamps ==
    \A n \in {-7, 0, 7} :
        LET db == Loaded
            r == simulateNow(db, n, clock)
        IN /\ r.ok
           /\ r.db.settings = [db.settings EXCEPT !.nowOffsetDays = n]
           /\ r.db.users = db.users
           /\ r.db.spots = db.spots
           /\ Len(r.db.logs) = Len(db.logs) + 1
           /\ SubSeq(r.db.logs, 1, Len(db.logs)) = db.logs
           /\ Last(r.db.logs).at = toISOString(clock + n)
           /\ r.value = toISOString(clock + n)
           /\ \A t \in {clock, clock + 1} :
                 TimestampsWritten(r.db, t, LoadedUuid) = {toISOString(t + n)}

\* C25 witness: the offset is 7 days, a spot created before the offset was set
\* has kept its createdAt, and the cleanup recorded on it since carries the
\* shifted time.
C25_Witness ==
    /\ HasDoc
    /\ Doc.settings.nowOffsetDays = 7
    /\ \E i \in Indices(Doc.spots) :
          /\ Doc.spots[i].createdAt = toISOString(0)
          /\ Doc.spots[i].updatedAt = toISOString(clock + 7)
          /\ Doc.spots[i].verifiedBy # Null

\* C26: the stored aiApprovalRate lies between 0 and 1 (rates are counted in
\* tenths); for every number r, setAiApprovalRate(r) stores and returns r
\* clamped into that range and leaves the theme and the clock offset as they
\* are; updateThemeSetting stores the theme and leaves the rate, the clock offset
\* and the log as they are.
C26_RateClampedThemeIndependent ==
    LET db == Loaded
    IN /\ HasDoc => Doc.settings.aiApprovalRate \in 0..RateOne
       /\ \A rate \in {-1, 0, 3, RateOne, 11} :
             LET r == setAiApprovalRate(db, rate, clock)
                 clamped == IF rate < 0 THEN 0 ELSE IF rate > RateOne THEN RateOne ELSE rate
             IN /\ r.ok
                /\ r.value = clamped
                /\ r.db.settings = [db.settings EXCEPT !.aiApprovalRate = clamped]
                /\ Len(r.db.logs) = Len(db.logs) + 1
       /\ \A theme \in {"system", "light", "dark"} :
             LET r == updateThemeSetting(db, theme)
             IN /\ r.ok
                /\ r.value = theme
                /\ r.db = [db EXCEPT !.settings.theme = theme]

\* C26 witness: a rate above 1 has been set and stored as 1, and the theme has
\* been set since, after which the log still ends with the rate's entry.
C26_Witness ==
    /\ HasDoc
    /\ Doc.settings.aiApprovalRate = RateOne
    /\ Doc.settings.theme = "dark"
    /\ Last(Doc.logs).message = <<"AI approval rate set to ", RateOne>>

----------------------------------------------------------------------------
(* getStats on a long log: the store of InitStats is a fresh one on which   *)
(* resetMapData was called 8 or 9 times, so that the cleanup workflow that *)
(* follows takes the log beyond the 10 entries that getStats returns.       *)

MaxStatsLogs == 13

RECURSIVE AfterMapResets(_, _)
AfterMapResets(db, k) ==
    IF k = 0 THEN db ELSE AfterMapResets(resetMapData(db, 0).db, k - 1)

InitStats ==
    /\ \E k \in {8, 9} : storage = saveDb(AfterMapResets(loadDb(Absent, 0, 0), k))
    /\ sessionRaw = Absent
    /\ clock = 0
    /\ nextUuid = UuidAfterLoad(Absent, 0)
    /\ pending = <<>>

NextStats ==
    \/ Tick
    \/ CreateUser(MaxStatsLogs)
    \/ UpgradeToPremium(MaxStatsLogs)
    \/ CreateSpot(MaxStatsLogs)
    \/ RecordCleanup(MaxStatsLogs)
    \/ SimulateNow(MaxStatsLogs)
    \/ GetStats(MaxStatsLogs)

SpecStats == InitStats /\ [][NextStats]_vars

\* C27: getStats counts, with every spot older than a week taken as unverified,
\* the spots that are verified or premium, and counts the users that are not
\* admins and the premium users; it returns the last 10 log entries, or all of
\* them when there are fewer, in log order; and it saves the document with the
\* old spots unverified and nothing else changed.
C27_StatsValues ==
    LET db == Loaded
        r == getStats(db, clock)
        Status(i) == IF OlderThanAWeek(db, db.spots[i]) THEN "unverified"
                     ELSE db.spots[i].status
        n == Len(db.logs)
        m == IF n < 10 THEN n ELSE 10
    IN /\ r.ok
       /\ r.value.totalTrash =
             Cardinality({i \in Indices(db.spots) : Status(i) \in {"verified", "premium"}})
       /\ r.value.newUsers =
             Cardinality({i \in Indices(db.users) : db.users[i].role # "admin"})
       /\ r.value.premiumCount =
             Cardinality({i \in Indices(db.users) : db.users[i].isPremium})
       /\ Len(r.value.logs) = m
       /\ \A k \in 1..m : r.value.logs[k] = db.logs[n - m + k]
       /\ r.db = [db EXCEPT !.spots =
                     [i \in Indices(db.spots) |-> [db.spots[i] EXCEPT !.status = Status(i)]]]

\* C27 witness: the log has more than 10 entries, a read has demoted a cleaned
\* spot, and a user who is not an admin has signed up.
C27_Witness ==
    /\ HasDoc
    /\ Len(Doc.logs) > StatsLogs
    /\ \E i \in Indices(Doc.spots) : Demoted(Doc.spots[i])
    /\ \E i \in Indices(Doc.users) : Doc.users[i].role = "user"

----------------------------------------------------------------------------
(* createSpot with the real time passing during the call: each of its      *)
(* three getNow(db) reads new Date() anew.                                  *)

CreateSpotTimed(maxLogs) ==
    \E reportedBy \in {Null} \cup {Loaded.users[i].id : i \in 1..Len(Loaded.users)},
       createdNow \in clock..MaxClock :
        \E updatedNow \in createdNow..MaxClock :
            \E logNow \in updatedNow..MaxClock :
                LET db == Loaded
                    r == createSpotAt(db, 12, 77, reportedBy, createdNow, updatedNow,
                                      logNow, LoadedUuid)
                IN /\ WithinBounds(r.db, LoadedUuid + 1, maxLogs)
                   /\ storage' = saveDb(r.db)
                   /\ nextUuid' = LoadedUuid + 1
                   /\ clock' = logNow
                   /\ UNCHANGED <<sessionRaw, pending>>

NextTimed ==
    \/ Tick
    \/ CreateUser(MaxDecayLogs)
    \/ UpgradeToPremium(MaxDecayLogs)
    \/ CreateSpotTimed(MaxDecayLogs)
    \/ SimulateNow(MaxDecayLogs)
    \/ GetAllSpots(MaxDecayLogs)

SpecTimed == Init /\ [][NextTimed]_vars

\* C28: a spot that createSpot has stored (no operation has updated or cleaned
\* it since) is unverified, verified by nobody, not a premium cleanup and
\* without images, whether or not its reporter is premium, and its updatedAt
\* equals its createdAt; and createSpot leaves the users and the spots it loaded
\* as they were.
C28_CreateSpotStores ==
    /\ HasDoc =>
          \A i \in Indices(Doc.spots) :
              /\ Doc.spots[i].status = "unverified"
              /\ Doc.spots[i].verifiedBy = Null
              /\ Doc.spots[i].premiumCleanup = FALSE
              /\ Doc.spots[i].beforeImage = Null
              /\ Doc.spots[i].afterImage = Null
              /\ Doc.spots[i].updatedAt = Doc.spots[i].createdAt
    /\ \A t \in clock..MaxClock :
          LET db == Loaded
              r == createSpotAt(db, 12, 77, Null, clock, clock, t, LoadedUuid)
          IN /\ r.ok
             /\ r.db.users = db.users
             /\ SubSeq(r.db.spots, 1, Len(db.spots)) = db.spots
             /\ Len(r.db.spots) = Len(db.spots) + 1
             /\ Last(r.db.spots).createdAt = toISOString(SimulatedNow(db))

----------------------------------------------------------------------------
(* The stored document lost: localStorage[STORAGE_KEY] is removed or        *)
(* overwritten with text that JSON.parse rejects, while                     *)
(* localStorage[SESSION_KEY] stays; the next loadDb reseeds the document.   *)

StoreLost ==
    /\ HasDoc
    /\ storage' \in {Absent, Garbage}
    /\ UNCHANGED <<sessionRaw, clock, nextUuid, pending>>

NextReseed ==
    \/ StoreLost
    \/ CreateUser(MaxLogs)
    \/ LoginUser(MaxLogs)
    \/ BanUser(MaxLogs)
    \/ GetSettings(MaxLogs)
    \/ GetSessionInfo
    \/ Logout
    \/ ResetAllData

SpecReseed == Init /\ [][NextReseed]_vars

\* C29: whenever a session is stored and a document is persisted, the
\* session's userId is the id of a user of the document.
C29_SessionUserExists ==
    (HasDoc /\ getSessionInfo(sessionRaw) # Null) =>
        getSessionInfo(sessionRaw).userId \in UserIds(Doc)

\* the sum of the points of a sequence of cleanup records
RECURSIVE SumPoints(_)
SumPoints(cleanups) ==
    IF cleanups = <<>> THEN 0 ELSE Head(cleanups).points + SumPoints(Tail(cleanups))

\* C30: where no updateUser is called, every user that createUser stored (the
\* users with the role user) has as points the sum of the points of its
\* cleanup records and as streak their number, and every cleanup record of any
\* user carries 100 points if it is premium and 50 otherwise.
C30_PointsAccounting ==
    HasDoc =>
        \A i \in Indices(Doc.users) :
            LET user == Doc.users[i]
            IN /\ user.role = "user" =>
                     /\ user.points = SumPoints(user.cleanups)
                     /\ user.streak = Len(user.cleanups)
               /\ \A k \in Indices(user.cleanups) :
                     user.cleanups[k].points = IF user.cleanups[k].premium THEN 100 ELSE 50

\* C30 witness: a user that createUser stored has been upgraded and has then
\* recorded a cleanup, or has recorded two cleanups.
C30_Witness ==
    /\ HasDoc
    /\ \E i \in Indices(Doc.users) :
          /\ Doc.users[i].role = "user"
          /\ Doc.users[i].points = 100
          /\ Doc.users[i].streak \in {1, 2}

----------------------------------------------------------------------------
(* Cleanups by users who are banned or not logged in: sign-up, login,      *)
(* logout, ban, and the recording of cleanups.                              *)

NextAward ==
    \/ CreateUser(MaxCleanupLogs)
    \/ LoginUser(MaxCleanupLogs)
    \/ Logout
    \/ BanUser(MaxCleanupLogs)
    \/ CreateSpot(MaxCleanupLogs)
    \/ RecordCleanup(MaxCleanupLogs)

SpecAward == Init /\ [][NextAward]_vars

\* C31: an approved recordCleanup succeeds exactly when its spot id and its
\* user id resolve, whether or not the user is banned, whatever session is
\* stored and whatever the status of the spot; it then adds the user's award
\* and 1 to the streak, and a second approved recording on the same spot by the
\* same user adds the award and 1 again.
C31_CleanupOnlyNeedsIds ==
    \A spotId \in UuidInputs, userId \in UuidInputs :
        LET db == Loaded
            first == recordCleanup(db, spotId, userId, BeforeImage, AfterImage, TRUE,
                                   "Approved", clock)
            second == recordCleanup(first.db, spotId, userId, BeforeImage, AfterImage,
                                    TRUE, "Approved", clock)
            before == UserOf(db, userId)
            award == IF before.isPremium THEN 100 ELSE 50
        IN /\ first.ok <=> (spotId \in SpotIds(db) /\ userId \in UserIds(db))
           /\ first.ok =>
                 /\ UserOf(first.db, userId).points = before.points + award
                 /\ UserOf(first.db, userId).streak = before.streak + 1
                 /\ SpotOf(first.db, spotId).status \in ClaimedStatuses
                 /\ second.ok
                 /\ UserOf(second.db, userId).points = before.points + 2 * award
                 /\ UserOf(second.db, userId).streak = before.streak + 2
                 /\ Len(UserOf(second.db, userId).cleanups) = Len(before.cleanups) + 2

\* C31 witness: a user who signed up and was then banned has recorded an
\* approved cleanup, while the stored session is the admin's.
C31_Witness ==
    /\ HasDoc
    /\ getSessionInfo(sessionRaw) # Null
    /\ \E i \in Indices(Doc.users) :
          /\ Doc.users[i].role = "user"
          /\ Doc.users[i].banned
          /\ Doc.users[i].id # getSessionInfo(sessionRaw).userId
          /\ Len(Doc.users[i].cleanups) = 1
          /\ Len(Doc.logs) > 1
          /\ Doc.logs[Len(Doc.logs) - 1].message = <<"Banned", " user: ", Doc.users[i].email>>
          /\ \E j \in Indices(Doc.spots) : Doc.spots[j].verifiedBy = Doc.users[i].id

====
